---------------------------- MODULE Spec2Model ----------------------------
(***************************************************************************)
(* resizeimg: a reverse proxy that fetches an image from an upstream       *)
(* origin, resizes it when it is large enough and re-encodes it in the     *)
(* format negotiated with the client.                                      *)
(*                                                                         *)
(* The model follows one request through http.rs `process` and             *)
(* image.rs `Image::new`.  Strings the code scans (templates, query        *)
(* strings, captures) are sequences of one-character strings.  The regex   *)
(* crate, the HTTP client and the two imaging backends are external: each  *)
(* is represented by the values its calls return.                          *)
(***************************************************************************)
EXTENDS Integers, Sequences, FiniteSets, TLC

VARIABLES
    config,            \* Config: upstreams (the ordered rule table), engine
    req,               \* the inbound request: uri, query, accept
    upstream_answer,   \* what the upstream origin answers to the fetch
    pc,                \* the request's position in `process`
    upstream_url,      \* Option<String> chosen by get_upstream
    desired_geometry,  \* Option<(u32, u32)> returned by extract_geometry
    image,             \* the Image under construction (data, mime, headers)
    calls,             \* how often fetch / decode / resize / encode were invoked
    resize_ratio,      \* the ratio handed to ops::resize (Vips), as <<num, den>>
    response           \* the Response handed back to the client

vars == <<config, req, upstream_answer, pc, upstream_url, desired_geometry,
          image, calls, resize_ratio, response>>

(***************************************************************************)
(* Bounds of the model.                                                    *)
(***************************************************************************)
MaxRules == 2
MaxGroups == 2
MaxTemplateLen == 3
MaxDim == 3
MaxHeaders == 3
MaxAccept == 2
MaxValueLen == 5
MaxPairs == 2

(***************************************************************************)
(* Option and Result values.                                               *)
(***************************************************************************)
None == [some |-> FALSE]
Some(x) == [some |-> TRUE, v |-> x]
Ok(x) == [ok |-> TRUE, v |-> x]
Err == [ok |-> FALSE]

Min(a, b) == IF a < b THEN a ELSE b

SeqsUpTo(S, n) == UNION { [1..k -> S] : k \in 0..n }

RECURSIVE Concat(_)
\* Vec<String>::join(""): the strings of ss one after the other.
Concat(ss) == IF ss = <<>> THEN <<>> ELSE Head(ss) \o Concat(Tail(ss))

StartsWith(s, pat) ==
    Len(s) >= Len(pat) /\ SubSeq(s, 1, Len(pat)) = pat

RECURSIVE SplitFrom(_, _, _)
SplitFrom(s, pat, cur) ==
    IF s = <<>> THEN <<cur>>
    ELSE IF StartsWith(s, pat)
         THEN <<cur>> \o SplitFrom(SubSeq(s, Len(pat) + 1, Len(s)), pat, <<>>)
         ELSE SplitFrom(Tail(s), pat, Append(cur, Head(s)))

\* str::split(pat) for a non-empty pattern: the pieces between the leftmost,
\* non-overlapping occurrences of pat; a string without pat is one piece.
Split(s, pat) == SplitFrom(s, pat, <<>>)

\* Iterator::take(n) on a sequence.
Take(s, n) == SubSeq(s, 1, Min(n, Len(s)))

(***************************************************************************)
(* Upstream Resolver: http.rs get_upstream.                                *)
(*                                                                         *)
(* A rule is [path, upstream].  `upstream` is the template, a string.      *)
(* `path` stands for the rule's regular expression as the regex crate      *)
(* sees it for this request: valid says whether Regex::new compiles it,    *)
(* captures is what Regex::captures returns on the request path: None, or  *)
(* the groups 0..n, each None when it did not take part in the match.      *)
(* Group 0, the whole match, always takes part.                            *)
(***************************************************************************)
Regex_new(path) == IF path.valid THEN Ok(path) ELSE Err

Regex_captures(re, uri) == re.captures

RECURSIVE Flatten(_)
\* captures.iter().flatten(): the groups that took part, in order.
Flatten(groups) ==
    IF groups = <<>> THEN <<>>
    ELSE IF Head(groups).some
         THEN <<Head(groups).v>> \o Flatten(Tail(groups))
         ELSE Flatten(Tail(groups))

\* Iterator::zip: pairs up to the shorter of the two.
Zip(a, b) == [i \in 1..Min(Len(a), Len(b)) |-> <<a[i], b[i]>>]

RECURSIVE FlatMapPairs(_)
\* flat_map(|(a, b)| vec![a, b]).
FlatMapPairs(zipped) ==
    IF zipped = <<>> THEN <<>>
    ELSE <<Head(zipped)[1], Head(zipped)[2]>> \o FlatMapPairs(Tail(zipped))

\* The body of the `if let Some(captures)` branch: the url built from a
\* matching entry.
BuildUrl(entry, captures) ==
    LET results == Tail(Flatten(captures))       \* results.remove(0)
        upstream_vec == Split(entry.upstream, <<"{", "}">>)
        zipped == Zip(upstream_vec, results)
    IN  Concat(FlatMapPairs(zipped))

RECURSIVE get_upstream_from(_, _, _)
get_upstream_from(uri, map, i) ==
    IF i > Len(map) THEN Ok(None)
    ELSE LET entry == map[i]
             re == Regex_new(entry.path)
         IN  IF ~re.ok THEN Err                  \* Regex::new(..)?
             ELSE LET captures == Regex_captures(re.v, uri)
                  IN  IF captures.some
                      THEN Ok(Some(BuildUrl(entry, captures.v)))
                      ELSE get_upstream_from(uri, map, i + 1)

\* A resolver in which the last matching rule of the table wins.
get_upstream_last(uri, map) ==
    get_upstream_from(uri, [i \in 1..Len(map) |-> map[Len(map) + 1 - i]], 1)

get_upstream(uri, map) == get_upstream_from(uri, map, 1)

(***************************************************************************)
(* Geometry Extractor: http.rs extract_geometry.                           *)
(***************************************************************************)
Str_Resize == <<"R", "e", "s", "i", "z", "e", "=">>
Str_im == <<"i", "m", "=">>

Digits == <<"0", "1", "2", "3", "4", "5", "6", "7", "8", "9">>
IsDigit(c) == \E d \in 1..10 : Digits[d] = c
DigitVal(c) == (CHOOSE d \in 1..10 : Digits[d] = c) - 1

\* u32::MAX, 4294967295, as its decimal digits.
U32_MAX == <<"4", "2", "9", "4", "9", "6", "7", "2", "9", "5">>

RECURSIVE StripZeros(_)
StripZeros(s) == IF s # <<>> /\ Head(s) = "0" THEN StripZeros(Tail(s)) ELSE s

RECURSIVE DigitsLeq(_, _)
\* a <= b for two digit strings of the same length.
DigitsLeq(a, b) ==
    IF a = <<>> THEN TRUE
    ELSE IF DigitVal(Head(a)) # DigitVal(Head(b))
         THEN DigitVal(Head(a)) < DigitVal(Head(b))
         ELSE DigitsLeq(Tail(a), Tail(b))

\* Whether the digit string s denotes a value of at most u32::MAX.
FitsU32(s) ==
    LET t == StripZeros(s)
    IN  Len(t) < Len(U32_MAX) \/ (Len(t) = Len(U32_MAX) /\ DigitsLeq(t, U32_MAX))

RECURSIVE DecimalValue(_, _)
DecimalValue(s, acc) ==
    IF s = <<>> THEN acc ELSE DecimalValue(Tail(s), acc * 10 + DigitVal(Head(s)))

\* str::parse::<u32>(): an optional '+', then one or more decimal digits whose
\* value fits 32 bits; anything else is an error.
ParseU32(s) ==
    LET t == IF s # <<>> /\ Head(s) = "+" THEN Tail(s) ELSE s
    IN  IF t = <<>> \/ \E i \in 1..Len(t) : ~IsDigit(t[i]) THEN Err
        ELSE IF ~FitsU32(t) THEN Err
        ELSE Ok(DecimalValue(t, 0))

unwrap_or_default(r, default) == IF r.ok THEN r.v ELSE default

RECURSIVE TrimStart(_)
TrimStart(s) == IF s # <<>> /\ Head(s) = " " THEN TrimStart(Tail(s)) ELSE s

RECURSIVE TrimEnd(_)
TrimEnd(s) ==
    IF s # <<>> /\ s[Len(s)] = " " THEN TrimEnd(SubSeq(s, 1, Len(s) - 1)) ELSE s

\* str::trim()
Trim(s) == TrimEnd(TrimStart(s))

RECURSIVE FindSize(_)
\* The `for pair in uri_string.split('&')` loop: the value of the first pair
\* that splits on "Resize=" into "im=" and a second piece; "" when there is none.
FindSize(pairs) ==
    IF pairs = <<>> THEN <<>>
    ELSE LET it == Take(Split(Head(pairs), Str_Resize), 2)
         IN  IF Len(it) = 2 /\ it[1] = Str_im THEN it[2]
             ELSE FindSize(Tail(pairs))

\* A panic of the request's task.
Panic == [panic |-> TRUE]
Returns(x) == [panic |-> FALSE, v |-> x]

\* size[1..size.len() - 1]: the range 1..len-1 panics when it starts after its
\* end, that is for a one-character string.
SliceInner(size) ==
    IF 1 > Len(size) - 1 THEN Panic ELSE Returns(SubSeq(size, 2, Len(size) - 1))

extract_geometry(uri_string) ==
    LET size == FindSize(Split(uri_string, <<"&">>))
    IN  IF size = <<>> THEN Returns(None)
        ELSE LET cut == SliceInner(size)
             IN  IF cut.panic THEN Panic
                 ELSE LET v == Split(cut.v, <<",">>)
                      IN  IF Len(v) # 2 THEN Returns(None)
                          ELSE LET width == unwrap_or_default(ParseU32(Trim(v[1])), 0)
                                   height == unwrap_or_default(ParseU32(Trim(v[2])), 0)
                               IN  IF width = 0 \/ height = 0 THEN Returns(None)
                                   ELSE Returns(Some(<<width, height>>))

(***************************************************************************)
(* Content Negotiator: http.rs get_target_mime.                            *)
(*                                                                         *)
(* A HeaderValue is [text, toks]: text says whether to_str() succeeds      *)
(* (only visible ASCII), toks is its content as a sequence of tokens, a    *)
(* media type or any other text being one token.                           *)
(***************************************************************************)
to_str(value) == IF value.text THEN Ok(value.toks) ELSE Err

\* str::contains for a media type: one of the tokens is that media type.
Contains(str, tok) == \E i \in 1..Len(str) : str[i] = tok

\* A negotiator that looks for WebP first.
get_target_mime_webp_first(accept) ==
    IF accept.some
    THEN LET accept_str == unwrap_or_default(to_str(accept.v), <<>>)
         IN  IF Contains(accept_str, "image/webp") THEN Some("WebP")
             ELSE IF Contains(accept_str, "image/avif") THEN Some("Avif")
             ELSE None
    ELSE None

get_target_mime(accept) ==
    IF accept.some
    THEN LET accept_str == unwrap_or_default(to_str(accept.v), <<>>)
         IN  IF Contains(accept_str, "image/avif") THEN Some("Avif")
             ELSE IF Contains(accept_str, "image/webp") THEN Some("WebP")
             ELSE None
    ELSE None

(***************************************************************************)
(* Header Translator: http.rs convert_headers.                             *)
(*                                                                         *)
(* The upstream headers are the header lines [name, value] as received.    *)
(* A HeaderMap maps every header name to the sequence of its values,       *)
(* empty when the header is absent.                                        *)
(***************************************************************************)
HeaderNames ==
    {"content-type", "last-modified", "etag", "cache-control", "vary", "x-custom"}

EmptyHeaderMap == [n \in HeaderNames |-> <<>>]

\* HeaderMap::insert: replaces every value of the name.
insert(map, name, value) == [map EXCEPT ![name] = <<value>>]

\* HeaderMap::append: adds a value to those of the name.
append(map, name, value) == [map EXCEPT ![name] = Append(@, value)]

RECURSIVE HeaderMap_iter(_)
\* HeaderMap::iter: name by name, each name's values in the order received.
HeaderMap_iter(lines) ==
    IF lines = <<>> THEN <<>>
    ELSE LET n == Head(lines).name
         IN  SelectSeq(lines, LAMBDA l : l.name = n)
                 \o HeaderMap_iter(SelectSeq(lines, LAMBDA l : l.name # n))

RECURSIVE convert_from(_, _)
convert_from(items, clean_headers) ==
    IF items = <<>> THEN Ok(clean_headers)
    ELSE LET key == Head(items).name
             value == Head(items).value
         IN  IF key \in {"content-type", "last-modified", "etag"}
             THEN IF ~to_str(value).ok THEN Err     \* value.to_str()?
                  ELSE convert_from(Tail(items), insert(clean_headers, key, value))
             ELSE IF key = "cache-control"
             THEN IF ~to_str(value).ok THEN Err
                  ELSE convert_from(Tail(items), append(clean_headers, key, value))
             ELSE convert_from(Tail(items), clean_headers)

RECURSIVE forward_from(_, _)
forward_from(items, clean_headers) ==
    IF items = <<>> THEN Ok(clean_headers)
    ELSE IF ~to_str(Head(items).value).ok THEN Err
    ELSE forward_from(Tail(items),
                      append(clean_headers, Head(items).name, Head(items).value))

\* A translator that forwards every upstream header, appending each value.
convert_headers_forward_all(headers) ==
    forward_from(HeaderMap_iter(headers), EmptyHeaderMap)

convert_headers(headers) == convert_from(HeaderMap_iter(headers), EmptyHeaderMap)

(***************************************************************************)
(* Image Engine: image.rs.                                                 *)
(*                                                                         *)
(* The upstream payload is [format, w, h]: the format its bytes really are *)
(* in ("garbage" for bytes no decoder reads) and the picture's size.  A    *)
(* decoded image (Engine) is [engine, w, h].                               *)
(***************************************************************************)
DEFAULT_GEOMETRY == <<800, 800>>

MimeTypes == [Jpeg |-> "image/jpeg", Png |-> "image/png", WebP |-> "image/webp",
              Avif |-> "image/avif", Gif |-> "image/gif"]

\* ImageFormat::to_mime_type
to_mime_type(format) == MimeTypes[format]

\* ImageFormat::from_mime_type: the format whose media type the string is,
\* exactly; None for any other string.
from_mime_type(str) ==
    IF Len(str) = 1 /\ \E f \in DOMAIN MimeTypes : MimeTypes[f] = str[1]
    THEN Some(CHOOSE f \in DOMAIN MimeTypes : MimeTypes[f] = str[1])
    ELSE None

HeaderValue_from_static(s) == [text |-> TRUE, toks |-> <<s>>]

\* HeaderMap::get: the first value of the name.
get(map, name) == IF map[name] = <<>> THEN None ELSE Some(map[name][1])

\* Image::new, lines 82-90: the declared format, or the error of a missing or
\* unparseable Content-Type.
parse_mime(upstream_headers) ==
    LET content_type == get(upstream_headers, "content-type")
    IN  IF content_type.some
        THEN LET m == from_mime_type(unwrap_or_default(to_str(content_type.v), <<>>))
             IN  IF m.some THEN Ok(m.v) ELSE Err
        ELSE Err

\* load_from_memory_with_format decodes the bytes as the declared format;
\* VipsImage::new_from_buffer finds the format out of the bytes themselves.
import_image(data, engine, format) ==
    IF engine = "ImageRs"
    THEN IF data.format = format
         THEN Ok([engine |-> "ImageRs", w |-> data.w, h |-> data.h]) ELSE Err
    ELSE IF data.format # "garbage"
         THEN Ok([engine |-> "Vips", w |-> data.w, h |-> data.h]) ELSE Err

get_geometry(data) == <<data.w, data.h>>

\* (a / b).round() for a >= 0, b > 0: to the nearest integer, halves upwards.
Round(a, b) == (2 * a + b) \div (2 * b)

Max(a, b) == IF a > b THEN a ELSE b

\* DynamicImage::resize(nwidth, nheight, filter) keeps the aspect ratio and
\* scales to the largest size that fits within nwidth x nheight: both sides
\* are scaled by min(nwidth / w, nheight / h), rounded, and are at least 1.
imagers_resize(d, nwidth, nheight) ==
    LET by_width == nwidth * d.h <= nheight * d.w   \* nwidth / w <= nheight / h
        num == IF by_width THEN nwidth ELSE nheight
        den == IF by_width THEN d.w ELSE d.h
    IN  [engine |-> "ImageRs",
         w |-> Max(Round(d.w * num, den), 1),
         h |-> Max(Round(d.h * num, den), 1)]

\* A ratio that is the smaller of the two.
vips_ratio_min(v, width, height) ==
    IF width * v.h < height * v.w THEN <<width, v.w>> ELSE <<height, v.h>>

\* Engine::resize, the Vips arm, lines 44-49: the larger of the two ratios,
\* as the fraction <<numerator, denominator>>.
vips_ratio(v, width, height) ==
    LET width_gt == width * v.h > height * v.w      \* width_ratio > height_ratio
    IN  IF width_gt THEN <<width, v.w>> ELSE <<height, v.h>>

\* ops::resize(v, ratio): both sides scaled by ratio, rounded.
ops_resize(v, ratio) ==
    [engine |-> "Vips",
     w |-> Round(v.w * ratio[1], ratio[2]),
     h |-> Round(v.h * ratio[1], ratio[2])]

\* Engine::resize
Engine_resize(data, width, height) ==
    IF data.engine = "ImageRs"
    THEN imagers_resize(data, width, height)
    ELSE ops_resize(data, vips_ratio(data, width, height))

\* A check that leaves the image alone only when it is smaller in both dimensions.
skips_resize_both(w, h, nwidth, nheight) == w < nwidth /\ h < nheight

\* Image::new, line 105: the image is left alone when it is smaller than
\* wanted in either dimension.
skips_resize(w, h, nwidth, nheight) == w < nwidth \/ h < nheight

\* imagers_decode / vips_decode: the formats either backend encodes.
EncodableFormats == {"Jpeg", "Png", "WebP", "Avif"}

\* Image::set_mime
set_mime(img, mime) ==
    [img EXCEPT !.mime = mime,
                !.headers = insert(@, "content-type",
                                   HeaderValue_from_static(to_mime_type(mime)))]

(***************************************************************************)
(* Request Pipeline: http.rs handle / process.                             *)
(***************************************************************************)
NoData == [engine |-> "none", w |-> 0, h |-> 0]
NoImage == [data |-> NoData, mime |-> "none", headers |-> EmptyHeaderMap]
NoCalls == [fetch |-> 0, decode |-> 0, resize |-> 0, encode |-> 0]
NoRatio == <<0, 0>>

\* (status, text).into_response()
TextResponse(status, text) ==
    Some([status |-> status,
          body |-> [kind |-> "text", text |-> text],
          headers |-> insert(EmptyHeaderMap, "content-type",
                             HeaderValue_from_static("text/plain; charset=utf-8"))])

\* handle, lines 46-49: any Err of process.
InternalError == TextResponse(500, "Error processing image\n")

\* process, line 59.
NotFound == TextResponse(404, "Not found\n")

\* process, line 71: Response::builder().status(BAD_GATEWAY).body(Body::empty())
BadGateway ==
    Some([status |-> 502, body |-> [kind |-> "empty"], headers |-> EmptyHeaderMap])

\* A status check that lets every status through.
is_success_any(status) == TRUE

\* StatusCode::is_success
is_success(status) == 200 <= status /\ status <= 299

Fail(resp) == pc' = "Failed" /\ response' = resp

\* process, lines 55-64: the upstream is chosen, then the geometry is read
\* from the query.  Both an Err and an Ok(None) of get_upstream end in 404.
ResolveUpstream ==
    /\ pc = "ResolvingUpstream"
    /\ LET r == get_upstream(req.uri, config.upstreams)
       IN  IF r.ok /\ r.v.some
           THEN LET g == extract_geometry(req.query)
                IN  /\ upstream_url' = r.v
                    /\ IF g.panic
                       THEN /\ pc' = "Panicked"
                            /\ UNCHANGED desired_geometry
                       ELSE /\ pc' = "FetchingUpstream"
                            /\ desired_geometry' = g.v
                    /\ UNCHANGED response
           ELSE /\ Fail(NotFound)
                /\ UNCHANGED <<upstream_url, desired_geometry>>
    /\ UNCHANGED <<config, req, upstream_answer, image, calls, resize_ratio>>

\* process, lines 67-68: the client is built and the request sent; a client
\* that cannot be built or a fetch that fails (connect, timeout) is an Err.
FetchUpstream ==
    /\ pc = "FetchingUpstream"
    /\ \E client_ok \in BOOLEAN :
         IF ~client_ok
         THEN Fail(InternalError) /\ UNCHANGED calls
         ELSE /\ calls' = [calls EXCEPT !.fetch = @ + 1]
              /\ IF upstream_answer.fetch = "error"
                 THEN Fail(InternalError)
                 ELSE pc' = "ValidatingResponse" /\ UNCHANGED response
    /\ UNCHANGED <<config, req, upstream_answer, upstream_url, desired_geometry,
                   image, resize_ratio>>

\* process, lines 69-79, and Image::new, lines 82-93: the status, the header
\* translation, the body, the declared format, and the Vary marker.
ValidateResponse ==
    /\ pc = "ValidatingResponse"
    /\ IF ~is_success(upstream_answer.status)
       THEN Fail(BadGateway) /\ UNCHANGED image
       ELSE LET upstream_headers == convert_headers(upstream_answer.headers)
            IN  IF ~upstream_headers.ok \/ upstream_answer.body = "aborted"
                THEN Fail(InternalError) /\ UNCHANGED image
                ELSE LET mime == parse_mime(upstream_headers.v)
                     IN  IF ~mime.ok
                         THEN Fail(InternalError) /\ UNCHANGED image
                         ELSE /\ image' = [data |-> NoData,
                                           mime |-> mime.v,
                                           headers |-> append(upstream_headers.v, "vary",
                                                HeaderValue_from_static("Accept"))]
                              /\ pc' = "Decoding"
                              /\ UNCHANGED response
    /\ UNCHANGED <<config, req, upstream_answer, upstream_url, desired_geometry,
                   calls, resize_ratio>>

\* Image::new, line 96.
Decode ==
    /\ pc = "Decoding"
    /\ calls' = [calls EXCEPT !.decode = @ + 1]
    /\ LET raw_data == import_image(upstream_answer.payload, config.engine, image.mime)
       IN  IF ~raw_data.ok
           THEN Fail(InternalError) /\ UNCHANGED image
           ELSE /\ image' = [image EXCEPT !.data = raw_data.v]
                /\ pc' = "Resizing"
                /\ UNCHANGED response
    /\ UNCHANGED <<config, req, upstream_answer, upstream_url, desired_geometry,
                   resize_ratio>>

\* Image::new, lines 97-111.  ops::resize may fail; DynamicImage::resize cannot.
Resize ==
    /\ pc = "Resizing"
    /\ LET n == IF desired_geometry.some THEN desired_geometry.v ELSE DEFAULT_GEOMETRY
           g == get_geometry(image.data)
       IN  IF skips_resize(g[1], g[2], n[1], n[2])
           THEN /\ pc' = "Negotiating"
                /\ UNCHANGED <<image, calls, resize_ratio, response>>
           ELSE /\ calls' = [calls EXCEPT !.resize = @ + 1]
                /\ resize_ratio' = IF image.data.engine = "Vips"
                                   THEN vips_ratio(image.data, n[1], n[2])
                                   ELSE resize_ratio
                /\ \E resize_ok \in BOOLEAN :
                     IF ~resize_ok /\ image.data.engine = "Vips"
                     THEN Fail(InternalError) /\ UNCHANGED image
                     ELSE /\ image' = [image EXCEPT
                                         !.data = Engine_resize(@, n[1], n[2])]
                          /\ pc' = "Negotiating"
                          /\ UNCHANGED response
    /\ UNCHANGED <<config, req, upstream_answer, upstream_url, desired_geometry>>

\* process, lines 85-87.
Negotiate ==
    /\ pc = "Negotiating"
    /\ LET target_mime == get_target_mime(req.accept)
       IN  image' = IF target_mime.some THEN set_mime(image, target_mime.v) ELSE image
    /\ pc' = "Encoding"
    /\ UNCHANGED <<config, req, upstream_answer, upstream_url, desired_geometry,
                   calls, resize_ratio, response>>

\* process, lines 88-91, and Image::save: the encoder may fail, and does for a
\* format neither backend writes.
Encode ==
    /\ pc = "Encoding"
    /\ calls' = [calls EXCEPT !.encode = @ + 1]
    /\ \E encode_ok \in BOOLEAN :
         IF ~encode_ok \/ image.mime \notin EncodableFormats
         THEN Fail(InternalError)
         ELSE /\ pc' = "Responding"
              /\ response' = Some([status |-> 200,
                                   body |-> [kind |-> "image",
                                             format |-> image.mime,
                                             geometry |-> get_geometry(image.data)],
                                   headers |-> image.headers])
    /\ UNCHANGED <<config, req, upstream_answer, upstream_url, desired_geometry,
                   image, resize_ratio>>

Next ==
    \/ ResolveUpstream
    \/ FetchUpstream
    \/ ValidateResponse
    \/ Decode
    \/ Resize
    \/ Negotiate
    \/ Encode

(***************************************************************************)
(* The inputs of a request: the configuration, the request and the         *)
(* upstream's answer.  Each specification below draws them from a family   *)
(* that varies one component widely around a plain request, together with  *)
(* a small family that varies all of them.                                 *)
(***************************************************************************)
Engines == {"ImageRs", "Vips"}

WholeMatch == Some(<<"/">>)

CaptureTexts == {<<>>, <<"4", "2">>, <<"7">>}
Groups == {None} \cup {Some(t) : t \in CaptureTexts}
Matches(maxGroups) == {Some(<<WholeMatch>> \o g) : g \in SeqsUpTo(Groups, maxGroups)}
InvalidPattern == [valid |-> FALSE, captures |-> None]
Patterns(maxGroups) ==
    {InvalidPattern} \cup
    {[valid |-> TRUE, captures |-> c] : c \in {None} \cup Matches(maxGroups)}

TemplateChars == {"f", "{", "}"}
Templates(maxLen) == SeqsUpTo(TemplateChars, maxLen)

Rules(maxGroups, maxLen) == [path : Patterns(maxGroups), upstream : Templates(maxLen)]

MatchRule ==
    [path |-> [valid |-> TRUE, captures |-> Some(<<WholeMatch, Some(<<"7">>)>>)],
     upstream |-> <<"f", "{", "}">>]
NoMatchRule == [path |-> [valid |-> TRUE, captures |-> None], upstream |-> <<"f">>]
InvalidRule == [path |-> InvalidPattern, upstream |-> <<"f">>]

FillRules == {MatchRule, NoMatchRule}

\* The rule table of n rules whose k-th rule is r and whose others are the
\* valid simple ones s gives.
RuleTable(n, k, r, s) == [i \in 1..n |-> IF i = k THEN r ELSE s[i]]

RECURSIVE DecimalOf(_)
\* The decimal digits of n.
DecimalOf(n) ==
    IF n < 10 THEN <<Digits[n + 1]>>
    ELSE Append(DecimalOf(n \div 10), Digits[(n % 10) + 1])

ResizePair(value) == Str_im \o Str_Resize \o value

ResizeQuery(w, h) ==
    ResizePair(<<"(">> \o DecimalOf(w) \o <<",">> \o DecimalOf(h) \o <<")">>)

ValueChars == {"(", ")", ",", "8", "0"}
Values(maxLen) == SeqsUpTo(ValueChars, maxLen)
PlainPairs ==
    { <<"a", "=", "1">>,
      ResizePair(<<>>),
      <<"a", "=">> \o Str_Resize \o <<"(", "8", ",", "8", ")">> }

RECURSIVE JoinPairs(_)
JoinPairs(pairs) ==
    IF pairs = <<>> THEN <<>>
    ELSE IF Len(pairs) = 1 THEN pairs[1]
    ELSE pairs[1] \o <<"&">> \o JoinPairs(Tail(pairs))

\* The query strings of at most maxPairs pairs of which one is im=Resize=
\* followed by any of `values` and the others are plain ones.
Queries(maxPairs, values) ==
    {<<>>} \cup
    UNION { { JoinPairs([i \in 1..n |-> IF i = k THEN ResizePair(v) ELSE s[i]]) :
                k \in 1..n, v \in values, s \in [1..n -> PlainPairs] } :
            n \in 1..maxPairs }

Header(name, text, tok) == [name |-> name, value |-> [text |-> text, toks |-> <<tok>>]]

HeaderLines ==
    { Header("content-type", TRUE, "image/jpeg"), Header("content-type", TRUE, "image/png"),
      Header("last-modified", TRUE, "Mon"), Header("last-modified", TRUE, "Tue"),
      Header("etag", TRUE, "v1"), Header("etag", TRUE, "v2"), Header("etag", FALSE, "v3"),
      Header("cache-control", TRUE, "public"), Header("cache-control", TRUE, "max-age=10"),
      Header("vary", TRUE, "Origin"), Header("x-custom", TRUE, "foo") }

AcceptTokens == {"image/avif", "image/webp", "text/html"}
AcceptHeaders(maxLen) ==
    {None} \cup {Some([text |-> t, toks |-> a]) :
                    t \in BOOLEAN, a \in SeqsUpTo(AcceptTokens, maxLen)}

SrcDims(maxDim) ==
    1..(2 * maxDim) \cup {DEFAULT_GEOMETRY[1] - 1, DEFAULT_GEOMETRY[1],
                          DEFAULT_GEOMETRY[1] + 1, 2 * DEFAULT_GEOMETRY[1]}

PlainConfig == [upstreams |-> <<MatchRule>>, engine |-> "ImageRs"]
PlainReq == [uri |-> "/7", query |-> <<>>, accept |-> None]
PlainAnswer ==
    [fetch |-> "ok", status |-> 200,
     headers |-> <<Header("content-type", TRUE, "image/jpeg")>>,
     body |-> "complete",
     payload |-> [format |-> "Jpeg", w |-> 3, h |-> 3]]
NoAnswer == [PlainAnswer EXCEPT !.fetch = "error"]

Input(c, r, a) == [config |-> c, req |-> r, upstream_answer |-> a]

SmallInputs ==
    { Input([upstreams |-> u, engine |-> e], [PlainReq EXCEPT !.query = q, !.accept = ac], a) :
        u \in {<<>>, <<MatchRule>>, <<InvalidRule>>},
        e \in Engines,
        q \in {<<>>, ResizeQuery(2, 2), ResizePair(<<"(">>)},
        ac \in {None, Some([text |-> TRUE, toks |-> <<"image/webp">>])},
        a \in {NoAnswer, [PlainAnswer EXCEPT !.status = 503]} \cup
              { [PlainAnswer EXCEPT !.headers = hs, !.body = b, !.payload = p] :
                  hs \in { <<>>, <<Header("content-type", TRUE, "image/jpeg")>>,
                           <<Header("content-type", FALSE, "image/jpeg")>>,
                           <<Header("content-type", TRUE, "image/gif")>>,
                           <<Header("content-type", TRUE, "text/html")>> },
                  b \in {"complete", "aborted"},
                  p \in { [format |-> "garbage", w |-> 0, h |-> 0],
                          [format |-> "Jpeg", w |-> 3, h |-> 3],
                          [format |-> "Jpeg", w |-> 1, h |-> 1],
                          [format |-> "Gif", w |-> 3, h |-> 3] } } }

ResolveInput(table) ==
    Input([PlainConfig EXCEPT !.upstreams = table], PlainReq, NoAnswer)

ExtractInputs(queries) ==
    { Input(PlainConfig, [PlainReq EXCEPT !.query = q], NoAnswer) : q \in queries }

ImageInputs(maxDim) ==
    { Input([PlainConfig EXCEPT !.engine = e], [PlainReq EXCEPT !.query = q],
            [PlainAnswer EXCEPT !.payload = [format |-> "Jpeg", w |-> w, h |-> h]]) :
        e \in Engines,
        q \in {<<>>} \cup {ResizeQuery(dw, dh) : dw \in 1..maxDim, dh \in 1..maxDim},
        w \in SrcDims(maxDim), h \in SrcDims(maxDim) }

AcceptInputs(maxLen) ==
    { Input([PlainConfig EXCEPT !.engine = e], [PlainReq EXCEPT !.accept = ac],
            [PlainAnswer EXCEPT !.headers = <<Header("content-type", TRUE, MimeTypes[f])>>,
                                !.payload = [format |-> f, w |-> 3, h |-> 3]]) :
        e \in Engines, ac \in AcceptHeaders(maxLen), f \in {"Jpeg", "Png", "WebP", "Gif"} }

HeaderInputs(maxHeaders) ==
    { Input([PlainConfig EXCEPT !.engine = "Vips"], [PlainReq EXCEPT !.accept = ac],
            [PlainAnswer EXCEPT !.headers = hs]) :
        ac \in {None, Some([text |-> TRUE, toks |-> <<"image/avif">>])},
        hs \in SeqsUpTo(HeaderLines, maxHeaders) }

\* The state in which `process` is entered with the inputs `input`.
InitOf(input) ==
    /\ config = input.config
    /\ req = input.req
    /\ upstream_answer = input.upstream_answer
    /\ pc = "ResolvingUpstream"
    /\ upstream_url = None
    /\ desired_geometry = None
    /\ image = NoImage
    /\ calls = NoCalls
    /\ resize_ratio = NoRatio
    /\ response = None

InitWith(inputs) == \E input \in inputs : InitOf(input)

Init == InitWith(SmallInputs \cup AcceptInputs(MaxAccept) \cup HeaderInputs(MaxHeaders))
Spec == Init /\ [][Next]_vars

InitResolve ==
    \/ InitWith(SmallInputs)
    \/ InitOf(ResolveInput(<<>>))
    \/ \E n \in 1..MaxRules, k \in 1..MaxRules, r \in Rules(MaxGroups, MaxTemplateLen) :
         \E s \in [1..n -> FillRules] :
            k <= n /\ InitOf(ResolveInput(RuleTable(n, k, r, s)))
SpecResolve == InitResolve /\ [][Next]_vars

InitExtract ==
    InitWith(SmallInputs \cup ExtractInputs(Queries(MaxPairs, Values(MaxValueLen))))
SpecExtract == InitExtract /\ [][Next]_vars

InitImage == InitWith(SmallInputs \cup ImageInputs(MaxDim))
SpecImage == InitImage /\ [][Next]_vars

(***************************************************************************)
(* Upstream Resolver: claims C1, C2, C3 (under SpecResolve).               *)
(***************************************************************************)
Resolved == pc # "ResolvingUpstream"

WellFormed(table) == \A i \in 1..Len(table) : table[i].path.valid

Matching(table) == {i \in 1..Len(table) : table[i].path.captures.some}

FirstMatching(table) ==
    CHOOSE i \in Matching(table) : \A j \in Matching(table) : i <= j

\* The groups 1..n of a match.
GroupsOf(rule) == Tail(rule.path.captures.v)

\* The texts of the groups that took part in the match, in order.
CapturedTexts(rule) ==
    LET taken == SelectSeq(GroupsOf(rule), LAMBDA g : g.some)
    IN  [j \in 1..Len(taken) |-> taken[j].v]

\* The texts of all the groups, a group that did not take part counting as
\* the empty text.
GroupTexts(rule) ==
    [j \in 1..Len(GroupsOf(rule)) |->
        IF GroupsOf(rule)[j].some THEN GroupsOf(rule)[j].v ELSE <<>>]

RECURSIVE Interleave(_, _, _)
\* f[1] c[1] f[2] c[2] ... f[k] c[k]
Interleave(f, c, k) ==
    IF k = 0 THEN <<>> ELSE Interleave(f, c, k - 1) \o f[k] \o c[k]

Fragments(rule) == Split(rule.upstream, <<"{", "}">>)

\* The reference result for a matching rule whose captures are c.
ReferenceUrl(rule, c) ==
    Interleave(Fragments(rule), c, Min(Len(Fragments(rule)), Len(c)))

IsNotFound == pc = "Failed" /\ response.some /\ response.v.status = 404

ResolvesAs(table, captures(_)) ==
    IF Matching(table) = {}
    THEN upstream_url = None /\ IsNotFound
    ELSE /\ upstream_url = Some(ReferenceUrl(table[FirstMatching(table)],
                                             captures(table[FirstMatching(table)])))
         /\ ~IsNotFound

\* C1, as amended: with well-formed patterns the resolver takes the first
\* matching rule in table order, interleaves the template's fragments with the
\* captures of the groups that took part in the match (a group that did not
\* take part is skipped), stops after min(N+1, M) pairs, and finds no url,
\* answering 404, exactly when no rule matches.
C1_ResolveReference ==
    (Resolved /\ WellFormed(config.upstreams))
        => ResolvesAs(config.upstreams, CapturedTexts)

\* C1, as stated: the captures are the pattern's groups 1..M, whether or not
\* each took part in the match.
C1_AsStated ==
    (Resolved /\ WellFormed(config.upstreams))
        => ResolvesAs(config.upstreams, GroupTexts)

\* C1's case: the second rule of the table is the first to match, one of its
\* groups did not take part, and the url was cut at the shorter sequence.
C1_Witness ==
    /\ pc = "FetchingUpstream"
    /\ Len(config.upstreams) = 2
    /\ FirstMatching(config.upstreams) = 2
    /\ LET rule == config.upstreams[2]
       IN  /\ Len(CapturedTexts(rule)) = 1
           /\ Len(GroupsOf(rule)) = 2
           /\ Len(Fragments(rule)) = 2
           /\ CapturedTexts(rule)[1] # <<>>
           /\ upstream_url = Some(Fragments(rule)[1] \o CapturedTexts(rule)[1])
           /\ Fragments(rule)[2] # <<>>

\* C2: when the first matching rule has as many capture groups as its template
\* has placeholders, the url is the template with every placeholder replaced
\* by its capture and every literal fragment kept, the last one too.
C2_FullSubstitution ==
    (Resolved /\ WellFormed(config.upstreams) /\ Matching(config.upstreams) # {})
        => LET rule == config.upstreams[FirstMatching(config.upstreams)]
               f == Fragments(rule)
               c == CapturedTexts(rule)
           IN  (Len(GroupsOf(rule)) = Len(c) /\ Len(c) = Len(f) - 1)
                   => upstream_url = Some(Interleave(f, c, Len(c)) \o f[Len(f)])

\* C3: a rule with an invalid pattern that the resolution reaches ends the
\* request with 500, not 404.
C3_MalformedIs500 ==
    (/\ Resolved
     /\ \E i \in 1..Len(config.upstreams) :
          /\ ~config.upstreams[i].path.valid
          /\ \A j \in 1..(i - 1) : /\ config.upstreams[j].path.valid
                                   /\ ~config.upstreams[j].path.captures.some)
        => (pc = "Failed" /\ response.some /\ response.v.status = 500)

(***************************************************************************)
(* Geometry Extractor: claims C4, C5 (under SpecExtract).                  *)
(***************************************************************************)
\* C4: extract is total; no query string makes it fail or abort.
C4_ExtractTotal == pc # "Panicked"

IsPositiveU32(s) == ParseU32(s).ok /\ ParseU32(s).v > 0

\* A pair of exactly the form im=Resize=(W,H), W and H positive integers.
IsResizePair(pair) ==
    LET prefix == Str_im \o Str_Resize \o <<"(">>
    IN  /\ StartsWith(pair, prefix)
        /\ Len(pair) > Len(prefix)
        /\ pair[Len(pair)] = ")"
        /\ LET fields == Split(SubSeq(pair, Len(prefix) + 1, Len(pair) - 1), <<",">>)
           IN  /\ Len(fields) = 2
               /\ IsPositiveU32(fields[1])
               /\ IsPositiveU32(fields[2])

HasResizePair(query) ==
    \E i \in 1..Len(Split(query, <<"&">>)) : IsResizePair(Split(query, <<"&">>)[i])

\* C5: a query string without a pair of exactly the form im=Resize=(W,H)
\* yields no geometry.  The runs in which the extractor aborts (C4) are left
\* aside: the claim fails on runs in which it returns.
C5_NoPairNoGeometry ==
    (Resolved /\ ~IsNotFound /\ pc # "Panicked" /\ ~HasResizePair(req.query))
        => desired_geometry = None

(***************************************************************************)
(* Image Engine: claims C6, C7 (under SpecImage).                          *)
(***************************************************************************)
\* The decoded image's intrinsic size.
SrcW == upstream_answer.payload.w
SrcH == upstream_answer.payload.h

\* The desired geometry: the one extracted, 800x800 when none was.
Desired == IF desired_geometry.some THEN desired_geometry.v ELSE <<800, 800>>

\* The resize step is behind.
Resized == pc \in {"Negotiating", "Encoding", "Responding"}

TooSmall == SrcW < Desired[1] \/ SrcH < Desired[2]

\* C6: the system never upscales.  An image smaller than desired in either
\* dimension is not resized and keeps its size; the backend resize is invoked
\* once, and only for an image at least as large as desired in both dimensions.
C6_NeverUpscales ==
    /\ calls.resize <= 1
    /\ calls.resize = 1 => ~TooSmall
    /\ Resized =>
         IF TooSmall
         THEN calls.resize = 0 /\ get_geometry(image.data) = <<SrcW, SrcH>>
         ELSE calls.resize = 1
    /\ (pc = "Responding" /\ TooSmall) => response.v.body.geometry = <<SrcW, SrcH>>

\* C6's case: an image of 1600x799 answered under the default geometry, too
\* small in one dimension only, goes out in its own size.
C6_Witness ==
    /\ pc = "Responding"
    /\ desired_geometry = None
    /\ SrcW = 1600 /\ SrcH = 799
    /\ calls.resize = 0
    /\ response.v.body.geometry = <<1600, 799>>

Abs(x) == IF x < 0 THEN -x ELSE x

\* out is src scaled to the width dw with the height rounded to a whole
\* number of pixels, at least one.
ScaledToWidth(out, dw) ==
    out[1] = dw /\ (out[2] = 1 \/ 2 * Abs(out[2] * SrcW - SrcH * dw) <= SrcW)

ScaledToHeight(out, dh) ==
    out[2] = dh /\ (out[1] = 1 \/ 2 * Abs(out[1] * SrcH - SrcW * dh) <= SrcH)

\* C7: when the resize is invoked, the ImageRs backend's output fits in the
\* desired box with the aspect ratio kept, and the Vips backend scales by
\* ratio = max(dw / w, dh / h), which is at most 1 and covers the box.
C7_FitVersusCover ==
    LET dw == Desired[1]
        dh == Desired[2]
        out == get_geometry(image.data)
    IN  /\ (Resized /\ calls.resize = 1 /\ config.engine = "ImageRs") =>
              /\ out[1] <= dw /\ out[2] <= dh
              /\ ScaledToWidth(out, dw) \/ ScaledToHeight(out, dh)
        /\ (calls.resize = 1 /\ config.engine = "Vips") =>
              LET num == resize_ratio[1]
                  den == resize_ratio[2]
              IN  /\ den > 0
                  /\ num * SrcW >= dw * den /\ num * SrcH >= dh * den
                  /\ num * SrcW = dw * den \/ num * SrcH = dh * den
                  /\ num <= den
        /\ (Resized /\ calls.resize = 1 /\ config.engine = "Vips") =>
              /\ out[1] >= dw /\ out[2] >= dh
              /\ out[1] <= SrcW /\ out[2] <= SrcH

\* C7's case: the Vips backend resized a 6x4 image for a 2x2 box and the
\* result, 3x2, is wider than the box.
C7_Witness ==
    /\ pc = "Responding"
    /\ config.engine = "Vips"
    /\ calls.resize = 1
    /\ SrcW = 6 /\ SrcH = 4
    /\ desired_geometry = Some(<<2, 2>>)
    /\ response.v.body.geometry = <<3, 2>>

(***************************************************************************)
(* Content negotiation, header translation and upstream errors: claims C8, *)
(* C9, C10 (under Spec).                                                   *)
(***************************************************************************)
\* The Accept header's text names the media type.
Accepts(mediaType) ==
    /\ req.accept.some
    /\ req.accept.v.text
    /\ \E i \in 1..Len(req.accept.v.toks) : req.accept.v.toks[i] = mediaType

\* The values the upstream sent under a name, in the order received.
UpstreamValues(name) ==
    LET lines == SelectSeq(upstream_answer.headers, LAMBDA l : l.name = name)
    IN  [i \in 1..Len(lines) |-> lines[i].value]

LastOf(values) == values[Len(values)]

FormatNamed(value) ==
    CHOOSE f \in {"Jpeg", "Png", "WebP", "Avif", "Gif", "other"} :
        IF value.toks = <<"image/jpeg">> THEN f = "Jpeg"
        ELSE IF value.toks = <<"image/png">> THEN f = "Png"
        ELSE IF value.toks = <<"image/webp">> THEN f = "WebP"
        ELSE IF value.toks = <<"image/avif">> THEN f = "Avif"
        ELSE IF value.toks = <<"image/gif">> THEN f = "Gif"
        ELSE f = "other"

\* C8: in a successful response the body's format and the Content-Type are the
\* same: AVIF when the Accept text contains image/avif, else WebP when it
\* contains image/webp, else the format the upstream declared, with the
\* upstream's Content-Type unchanged.
C8_NegotiatedFormat ==
    pc = "Responding" =>
        LET content_type == response.v.headers["content-type"]
            declared == LastOf(UpstreamValues("content-type"))
            format == response.v.body.format
        IN  /\ Len(content_type) = 1
            /\ FormatNamed(content_type[1]) = format
            /\ IF Accepts("image/avif") THEN format = "Avif"
               ELSE IF Accepts("image/webp") THEN format = "WebP"
               ELSE format = FormatNamed(declared) /\ content_type[1] = declared

\* C8's case: the client lists WebP before AVIF, the upstream sent a JPEG,
\* and the answer is AVIF.
C8_Witness ==
    /\ pc = "Responding"
    /\ req.accept = Some([text |-> TRUE, toks |-> <<"image/webp", "image/avif">>])
    /\ UpstreamValues("content-type") = <<[text |-> TRUE, toks |-> <<"image/jpeg">>]>>
    /\ response.v.body.format = "Avif"
    /\ response.v.headers["content-type"] = <<[text |-> TRUE, toks |-> <<"image/avif">>]>>

\* C9: the headers of a successful response are the allowlist translation of
\* the upstream's: nothing but Content-Type, Last-Modified, ETag and
\* Cache-Control comes through; the first three carry one value, the last one
\* the upstream sent; every Cache-Control value is there; and there is one
\* Vary: Accept whatever the upstream sent.
C9_HeaderAllowlist ==
    pc = "Responding" =>
        LET h == response.v.headers
        IN  /\ \A n \in HeaderNames \ {"content-type", "last-modified", "etag",
                                       "cache-control", "vary"} : h[n] = <<>>
            /\ \A n \in {"last-modified", "etag"} :
                 h[n] = IF UpstreamValues(n) = <<>> THEN <<>>
                        ELSE <<LastOf(UpstreamValues(n))>>
            /\ Len(h["content-type"]) = 1
            /\ (~Accepts("image/avif") /\ ~Accepts("image/webp"))
                   => h["content-type"] = <<LastOf(UpstreamValues("content-type"))>>
            /\ h["cache-control"] = UpstreamValues("cache-control")
            /\ h["vary"] = <<[text |-> TRUE, toks |-> <<"Accept">>]>>

\* C9's case: the upstream sent two Cache-Control values, and both are in the
\* response.
C9_Witness ==
    /\ pc = "Responding"
    /\ Len(UpstreamValues("cache-control")) = 2
    /\ UpstreamValues("cache-control")[1] # UpstreamValues("cache-control")[2]
    /\ response.v.headers["cache-control"] = UpstreamValues("cache-control")

\* C10: an upstream answer with a non-success status ends in a 502 whose body
\* is a non-empty text, with no decode, resize or encode.
C10_BadGateway ==
    (/\ pc = "Failed"
     /\ calls.fetch = 1
     /\ upstream_answer.fetch = "ok"
     /\ ~(200 <= upstream_answer.status /\ upstream_answer.status <= 299))
        => /\ response.some
           /\ response.v.status = 502
           /\ response.v.body.kind = "text" /\ response.v.body.text # ""
           /\ calls.decode = 0 /\ calls.resize = 0 /\ calls.encode = 0

(***************************************************************************)
(* Request Pipeline: claim C11 (under Spec).                               *)
(***************************************************************************)
Stages ==
    << "ResolvingUpstream", "FetchingUpstream", "ValidatingResponse", "Decoding",
       "Resizing", "Negotiating", "Encoding", "Responding" >>

\* The request ended without an answer of the pipeline's last stage: an error
\* response, or the abort of the handler when extract_geometry panics.
Failed == pc \in {"Failed", "Panicked"}

StageOf(p) == CHOOSE i \in 1..Len(Stages) : Stages[i] = p

\* A step goes from a stage to the next one, or from a stage to the failure.
LinearStep ==
    /\ pc \in {Stages[i] : i \in 1..(Len(Stages) - 1)}
    /\ \/ pc' = Stages[StageOf(pc) + 1]
       \/ pc' \in {"Failed", "Panicked"}
    /\ \A c \in {"fetch", "decode", "resize", "encode"} :
          calls[c] <= calls'[c] /\ calls'[c] <= 1

DeclaredFormat ==
    LET h == convert_headers(upstream_answer.headers)
    IN  IF h.ok THEN parse_mime(h.v) ELSE Err

\* What a failed request has not done.
FailFast ==
    /\ \A c \in {"fetch", "decode", "resize", "encode"} : calls[c] <= 1
    /\ calls.fetch = 0 => calls.decode = 0
    /\ calls.decode = 0 => (calls.resize = 0 /\ calls.encode = 0)
    /\ (pc # "ResolvingUpstream" /\ ~upstream_url.some) => (Failed /\ calls.fetch = 0)
    /\ (calls.fetch = 1 /\ pc # "ValidatingResponse"
          /\ (upstream_answer.fetch = "error" \/ ~(200 <= upstream_answer.status
                                                   /\ upstream_answer.status <= 299)
              \/ ~DeclaredFormat.ok))
         => (Failed /\ calls.decode = 0)
    /\ (calls.decode = 1 /\ pc # "Decoding" /\ image.data = NoData)
         => (Failed /\ calls.resize = 0 /\ calls.encode = 0)
    /\ Failed => (pc = "Panicked" \/ (response.some /\ response.v.status # 200))
    /\ pc = "Responding" =>
         (calls.fetch = 1 /\ calls.decode = 1 /\ calls.encode = 1
            /\ response.some /\ response.v.status = 200)

\* C11: a request goes through the stages ResolvingUpstream, FetchingUpstream,
\* ValidatingResponse, Decoding, Resizing, Negotiating, Encoding, Responding
\* in this order, one step forward at a time and never back, fetches, decodes
\* and encodes at most once, and at the first failure ends, with no later
\* stage: no fetch after an unmatched path, no decode after a non-success
\* status or a missing or unparseable Content-Type, no encode after a failed
\* decode.  Nothing follows Responding or the failure.
C11_LinearFailFast == [][LinearStep]_vars /\ []FailFast

\* C11's case: the upstream was fetched once, the decode was tried once and
\* failed, and the request ended in a 500 without a resize or an encode.
C11_Witness ==
    /\ pc = "Failed"
    /\ calls = [fetch |-> 1, decode |-> 1, resize |-> 0, encode |-> 0]
    /\ image.data = NoData
    /\ response.v.status = 500

=============================================================================
